---- MODULE Spec2Model ----
(***************************************************************************)
(* Model of the "second brain" note application: App.handleSubmit with     *)
(* analyzeContent (note capture) and queryBrain with parseSearchIntent,    *)
(* getEmbedding and cosineSimilarity (recall).                             *)
(*                                                                         *)
(* Conventions.                                                            *)
(*  - A JavaScript string is a sequence of one-character strings, so that  *)
(*    .length and .toLowerCase() are computed, not tabulated.              *)
(*  - A value that may be null/undefined is a sequence of length at most   *)
(*    one: Null (<<>>) or Some(v) (<<v>>).                                 *)
(*  - Every await is a separate action: the code between two awaits runs   *)
(*    to completion on the single JavaScript thread.                       *)
(***************************************************************************)
EXTENDS Integers, Sequences, FiniteSets, TLC

\* ------------------------------------------------------------------------
\* Bounds of the model
\* ------------------------------------------------------------------------
\* number of submissions that may be started
MaxSubmits == 2
\* number of times the clock advances
MaxTicks == 1
\* the calls of handleSend in a run
MaxSends == 2

\* ------------------------------------------------------------------------
\* Option values and strings
\* ------------------------------------------------------------------------
Null == <<>>
Some(v) == <<v>>
IsNull(o) == Len(o) = 0
Val(o) == o[1]

sEmpty == <<>>
sA == <<"a">>
sab == <<"a", "b">>
sAb == <<"A", "b">>
sAB == <<"A", "B">>
scd == <<"c", "d">>
sCd == <<"C", "d">>
sGeneral == <<"G", "e", "n">>
sUncategorized == <<"u", "n", "c">>

\* String.prototype.toLowerCase on the alphabet used by the model
LowerChar(c) ==
  CASE c = "A" -> "a"
    [] c = "B" -> "b"
    [] c = "C" -> "c"
    [] c = "D" -> "d"
    [] c = "G" -> "g"
    [] OTHER -> c

toLowerCase(s) == [i \in DOMAIN s |-> LowerChar(s[i])]

\* String.prototype.trim, for the one white-space character of the model
RECURSIVE trimStart(_)
trimStart(s) ==
  IF s # <<>> /\ Head(s) = " " THEN trimStart(Tail(s)) ELSE s

RECURSIVE trimEnd(_)
trimEnd(s) ==
  IF s # <<>> /\ s[Len(s)] = " " THEN trimEnd(SubSeq(s, 1, Len(s) - 1)) ELSE s

trim(s) == trimEnd(trimStart(s))

\* Array.prototype.includes
includes(arr, x) == \E i \in DOMAIN arr : arr[i] = x

\* Array.prototype.slice(0, n)
Min(a, b) == IF a < b THEN a ELSE b
slice0(arr, n) == SubSeq(arr, 1, Min(n, Len(arr)))

\* ------------------------------------------------------------------------
\* Notes (Memory) and embeddings
\* ------------------------------------------------------------------------
Note(id, category, tags, createdAt, embedding) ==
  [id |-> id, category |-> category, tags |-> tags,
   createdAt |-> createdAt, embedding |-> embedding]

\* embedding vectors of the embedding model (dimension 2) and others that
\* the stored collection may hold
vE1 == <<1, 0>>
vE1neg == <<-1, 0>>
vE2 == <<0, 1>>
vE12 == <<1, 1>>
vZero == <<0, 0>>
vShort == <<1>>

\* ------------------------------------------------------------------------
\* cosineSimilarity
\* ------------------------------------------------------------------------
\* A score is the real number sgn(num) * sqrt(|num| / den), den > 0, kept
\* as the pair (num, den): dot / (sqrt(normA) * sqrt(normB)) is
\* sgn(dot) * sqrt(dot^2 / (normA * normB)).  Scores are compared exactly.
Score(num, den) == [num |-> num, den |-> den]
ScoreZero == Score(0, 1)
ScoreMinusOne == Score(-1, 1)
ScoreLess(a, b) == a.num * b.den < b.num * a.den

RECURSIVE SumTo(_, _, _, _)
SumTo(vecA, vecB, i, acc) ==
  IF i > Len(vecA) THEN acc
  ELSE SumTo(vecA, vecB, i + 1, acc + vecA[i] * vecB[i])

cosineSimilarity(vecA, vecB) ==
  IF Len(vecA) # Len(vecB) THEN ScoreZero
  ELSE LET dotProduct == SumTo(vecA, vecB, 1, 0)
           normA == SumTo(vecA, vecA, 1, 0)
           normB == SumTo(vecB, vecB, 1, 0)
       IN IF normA = 0 \/ normB = 0 THEN ScoreZero
          ELSE Score((IF dotProduct < 0 THEN -1 ELSE 1) * dotProduct * dotProduct,
                     normA * normB)

\* ------------------------------------------------------------------------
\* Array.prototype.sort (stable) with the two comparators of the code
\* ------------------------------------------------------------------------
\* An element is inserted before the first element it must precede, so
\* elements the comparator does not order keep their relative order.
RECURSIVE InsertByScore(_, _)
InsertByScore(sorted, x) ==
  IF sorted = <<>> THEN <<x>>
  ELSE IF ScoreLess(Head(sorted).score, x.score)
       THEN <<x>> \o sorted
       ELSE <<Head(sorted)>> \o InsertByScore(Tail(sorted), x)

RECURSIVE SortByScoreFrom(_, _)
SortByScoreFrom(arr, acc) ==
  IF arr = <<>> THEN acc
  ELSE SortByScoreFrom(Tail(arr), InsertByScore(acc, Head(arr)))

\* memoriesWithScore.sort((a, b) => b.score - a.score)
SortByScore(arr) == SortByScoreFrom(arr, <<>>)

RECURSIVE InsertByCreatedAt(_, _)
InsertByCreatedAt(sorted, x) ==
  IF sorted = <<>> THEN <<x>>
  ELSE IF Head(sorted).createdAt < x.createdAt
       THEN <<x>> \o sorted
       ELSE <<Head(sorted)>> \o InsertByCreatedAt(Tail(sorted), x)

RECURSIVE SortByCreatedAtFrom(_, _)
SortByCreatedAtFrom(arr, acc) ==
  IF arr = <<>> THEN acc
  ELSE SortByCreatedAtFrom(Tail(arr), InsertByCreatedAt(acc, Head(arr)))

\* arr.sort((a, b) => b.createdAt - a.createdAt)
SortByCreatedAt(arr) == SortByCreatedAtFrom(arr, <<>>)

\* ------------------------------------------------------------------------
\* parseSearchIntent
\* ------------------------------------------------------------------------
\* What JSON.parse(response.text) gives.  shape "object" is a value that
\* conforms to the response schema; "null" is the JSON value null;
\* "noTags" is an object without a tags property.
ParsedIntent(shape, keywords, category, tags, startDate, endDate) ==
  [shape |-> shape, keywords |-> keywords, category |-> category,
   tags |-> tags, startDate |-> startDate, endDate |-> endDate]

\* the value before parseSearchIntent has returned
NoParsed == ParsedIntent("none", sEmpty, Null, <<>>, Null, Null)

\* the fallback of the catch block
FallbackIntent(query) == ParsedIntent("object", query, Null, <<>>, Null, Null)

\* A response of generateContent: kind "error" is a rejected promise,
\* "empty" a response without text, "malformed" a text JSON.parse rejects,
\* "json" a text JSON.parse accepts, with the parsed value.
Response(kind, value) == [kind |-> kind, value |-> value]

parseSearchIntent(query, resp) ==
  IF resp.kind = "json" THEN resp.value ELSE FallbackIntent(query)

\* ------------------------------------------------------------------------
\* queryBrain, step 2: the hard filter
\* ------------------------------------------------------------------------
\* JavaScript truthiness of a string | null and of a number | null
TruthyStr(o) == ~IsNull(o) /\ Len(Val(o)) > 0
TruthyNum(o) == ~IsNull(o) /\ Val(o) # 0

\* the three tests of the callback of memories.filter; TRUE lets the
\* note through
CategoryFilter(m, parsed) ==
  ~(TruthyStr(parsed.category)
    /\ toLowerCase(m.category) # toLowerCase(Val(parsed.category)))

TagFilter(m, parsed) ==
  Len(parsed.tags) > 0 =>
    \E i \in DOMAIN parsed.tags : includes(m.tags, toLowerCase(parsed.tags[i]))

DateFilter(m, parsed) ==
  /\ ~(TruthyNum(parsed.startDate) /\ m.createdAt < Val(parsed.startDate))
  /\ ~(TruthyNum(parsed.endDate) /\ m.createdAt > Val(parsed.endDate))

\* The callback of memories.filter: "true", "false", or "throw" when the
\* callback raises a TypeError (parsed.category of null, parsed.tags.length
\* of an object without tags).
FilterCallback(m, parsed) ==
  IF parsed.shape = "null" THEN "throw"
  ELSE IF ~CategoryFilter(m, parsed) THEN "false"
  ELSE IF parsed.shape = "noTags" THEN "throw"
  ELSE IF ~TagFilter(m, parsed) THEN "false"
  ELSE IF ~DateFilter(m, parsed) THEN "false"
  ELSE "true"

KeepNote(m, parsed) == FilterCallback(m, parsed) = "true"

\* memories.filter(...): the callback runs once per note, in order; the
\* first callback that throws ends queryBrain.
FilterThrows(memories, parsed) ==
  \E i \in DOMAIN memories : FilterCallback(memories[i], parsed) = "throw"

HardFilter(memories, parsed) ==
  LET Keep(m) == KeepNote(m, parsed) IN SelectSeq(memories, Keep)

\* ------------------------------------------------------------------------
\* queryBrain, step 3: ranking
\* ------------------------------------------------------------------------
\* the number of notes handed to answer synthesis
TopK == 10

\* parsed.keywords && parsed.keywords.length > 1; reading a property of
\* null throws
KeywordsThrows(parsed) == parsed.shape = "null"
HasKeywords(parsed) == Len(parsed.keywords) > 1

\* filteredMemories.map(m => ({memory, score}))
ScoreMemories(queryEmbedding, filtered) ==
  [i \in DOMAIN filtered |->
     [memory |-> filtered[i],
      score |-> IF IsNull(filtered[i].embedding) THEN ScoreMinusOne
                ELSE cosineSimilarity(queryEmbedding,
                                      Val(filtered[i].embedding))]]

MemoriesOf(scored) == [i \in DOMAIN scored |-> scored[i].memory]

\* the branch taken when the keyword embedding is absent or nothing passed
\* the filter
MutRankFallbackRecent(filtered) == slice0(SortByCreatedAt(filtered), TopK)

RankFallback(filtered) == slice0(filtered, TopK)

\* the branch taken without keywords
MutRankRecentUnsorted(filtered) == slice0(filtered, TopK)

RankRecent(filtered) == slice0(SortByCreatedAt(filtered), TopK)

\* the branch taken with keywords and a keyword embedding
MutRankByScoreUnsorted(scored) == MemoriesOf(slice0(scored, TopK))

RankByScore(scored) == MemoriesOf(slice0(SortByScore(scored), TopK))

\* ------------------------------------------------------------------------
\* queryBrain, steps 4 to 6: the value returned
\* ------------------------------------------------------------------------
\* What queryBrain gives its caller: kind "return" with the properties of
\* the returned object (a property the object lacks is Null), or kind
\* "raise" when the promise is rejected.
QueryResult(kind, answer, relatedIds, usedFilters) ==
  [kind |-> kind, answer |-> answer, relatedIds |-> relatedIds,
   usedFilters |-> usedFilters]

NoResult == QueryResult("none", Null, Null, Null)
Raised == QueryResult("raise", Null, Null, Null)

msgNoMatches(language) ==
  IF language = "zh" THEN "noMatches_zh" ELSE "noMatches_en"
msgApology(language) ==
  IF language = "zh" THEN "apology_zh" ELSE "apology_en"

\* the return of step 4
MutNoMatchesNoFilters(language, parsed) ==
  QueryResult("return", Some(msgNoMatches(language)), Some(<<>>), Null)

NoMatches(language, parsed) ==
  QueryResult("return", Some(msgNoMatches(language)), Some(<<>>),
              Some(parsed))

\* the return of the catch block of step 6
Apology(language) ==
  QueryResult("return", Some(msgApology(language)), Some(<<>>), Null)

\* The value JSON.parse gives for the synthesis response: shape "object"
\* conforms to the schema, "null" is the JSON value null, "noFields" is an
\* object with neither answer nor relatedIds.
SynthValue(shape, answer, relatedIds) ==
  [shape |-> shape, answer |-> answer, relatedIds |-> relatedIds]

\* try { ... return {...res, usedFilters: parsed} } catch { return apology }
Synthesize(resp, language, parsed) ==
  IF resp.kind = "json"
  THEN QueryResult("return", resp.value.answer, resp.value.relatedIds,
                   Some(parsed))
  ELSE Apology(language)

\* ------------------------------------------------------------------------
\* analyzeContent and App.handleSubmit
\* ------------------------------------------------------------------------
\* ProcessingResult; for the annotation response, shape is as for the
\* parsed intent ("object" conforms, "null", "noTags"), or "noSummary" for
\* an object without a summary property
Analysis(shape, summary, tags, category, embedding) ==
  [shape |-> shape, summary |-> summary, tags |-> tags,
   category |-> category, embedding |-> embedding]

NoAnalysis == Analysis("none", sEmpty, <<>>, sEmpty, Null)

\* the number of characters of the text kept in the degraded summary
SummaryLen == 50
sEllipsis == <<".", ".", ".">>

\* the return of the catch block of analyzeContent
DegradedAnalysis(text) ==
  Analysis("object", slice0(text, SummaryLen) \o sEllipsis,
           <<sUncategorized>>, sGeneral, Null)

\* JSON.parse(response.text) followed by the construction of textToEmbed,
\* which reads result.category and result.tags.join: TRUE when one of
\* them throws and the catch block takes over
AnnotationFails(resp) ==
  resp.kind # "json" \/ resp.value.shape \in {"null", "noTags"}

\* return {...result, embedding}
WithEmbedding(result, embedding) ==
  Analysis(result.shape, result.summary, result.tags, result.category,
           embedding)

\* generateId(): the id of the note of submission number i
generateId(i) == 100 + i

\* the object literal newMemory of handleSubmit
NewMemory(id, analysis, createdAt) ==
  Note(id, analysis.category, analysis.tags, createdAt, Null)

\* a submission: its position in handleSubmit/analyzeContent, its text,
\* the external calls analyzeContent has issued, the parsed annotation
\* (NoAnalysis when there is none), the value analyzeContent returned and
\* the id of its note
Submission(pc, text, issued, annotation, analysis, noteId) ==
  [pc |-> pc, text |-> text, issued |-> issued, result |-> annotation,
   analysis |-> analysis, noteId |-> noteId]

\* ------------------------------------------------------------------------
\* ChatInterface: the messages of the chat log
\* ------------------------------------------------------------------------
\* ChatMessage; text, relatedMemoryIds and usedFilters are Null when the
\* object has no such property or the property is undefined
ChatMessage(role, text, relatedMemoryIds, usedFilters) ==
  [role |-> role, text |-> text, relatedMemoryIds |-> relatedMemoryIds,
   usedFilters |-> usedFilters]

msgWelcome(language) ==
  IF language = "zh" THEN "welcomeMessage_zh" ELSE "welcomeMessage_en"
msgErrorGeneric(language) ==
  IF language = "zh" THEN "errorGeneric_zh" ELSE "errorGeneric_en"

\* { role: 'model', text: t.welcomeMessage }
Welcome(language) == ChatMessage("model", Some(msgWelcome(language)), Null, Null)

\* { role: 'user', text: input }
UserMessage(text) == ChatMessage("user", Some(text), Null, Null)

\* the message handleSend appends when queryBrain has settled
ReplyMessage(res, language) ==
  IF res.kind = "raise"
  THEN ChatMessage("model", Some(msgErrorGeneric(language)), Null, Null)
  ELSE ChatMessage("model", res.answer, res.relatedIds, res.usedFilters)

\* ------------------------------------------------------------------------
\* Inputs
\* ------------------------------------------------------------------------
Languages == {"en", "zh"}

\* chat inputs that pass the !input.trim() guard of handleSend
UserQueries == {sA, scd}

\* notes a stored collection may hold
n1 == Note(1, sAb, <<sab>>, 1, Some(vE1))
n2 == Note(2, sab, <<sAb, scd>>, 3, Null)
n3 == Note(3, sCd, <<scd, sab>>, 2, Some(vE1neg))
n4 == Note(4, sab, <<sab>>, 2, Some(vE12))
StoredNotes == {n1, n2, n3, n4}

StoredEmbedding(i) ==
  CASE i % 6 = 0 -> Some(vE1)
    [] i % 6 = 1 -> Null
    [] i % 6 = 2 -> Some(vE1neg)
    [] i % 6 = 3 -> Some(vE12)
    [] i % 6 = 4 -> Some(vZero)
    [] OTHER -> Some(vShort)

\* a collection with more than TopK notes
LongLen == 12
LongCollection ==
  [i \in 1..LongLen |->
     Note(20 + i, IF i % 4 = 0 THEN sCd ELSE sAb, <<sab>>, 1 + (i % 3),
          StoredEmbedding(i))]

StoredCollections ==
  {<<>>, LongCollection}
  \cup {<<a>> : a \in StoredNotes}
  \cup {c \in {<<a, b>> : a \in StoredNotes, b \in StoredNotes} : c[1] # c[2]}

\* the largest createdAt of a stored note; Date.now() starts there
StoredMaxTime == 3

\* localStorage.getItem('secondBrain_memories') at mount: nothing, a text
\* JSON.parse rejects, or a stored collection
SavedItems ==
  {Response("none", <<>>), Response("corrupt", <<>>),
   Response("json", <<n1, n2>>)}

\* responses to the intent-parsing call
IntentKeywords == {sEmpty, sA, sab}
IntentCategories == {Null, Some(sEmpty), Some(sAB)}
IntentTags == {<<>>, <<sAB>>, <<sCd, sab>>}
IntentStartDates == {Null, Some(0), Some(2)}
IntentEndDates == {Null, Some(0), Some(2)}

IntentValues ==
  {ParsedIntent("object", k, c, t, sd, ed) :
     k \in IntentKeywords, c \in IntentCategories, t \in IntentTags,
     sd \in IntentStartDates, ed \in IntentEndDates}
  \cup {ParsedIntent("null", sEmpty, Null, <<>>, Null, Null)}
  \cup {ParsedIntent("noTags", k, c, <<>>, Null, Null) :
          k \in {sEmpty, sab}, c \in {Null, Some(sCd)}}

IntentFailures ==
  {Response(kind, NoParsed) : kind \in {"error", "empty", "malformed"}}

IntentResponses == IntentFailures \cup {Response("json", v) : v \in IntentValues}

\* the responses used when the whole application runs
AppIntentResponses ==
  {Response("error", NoParsed),
   Response("json", ParsedIntent("object", sab, Null, <<>>, Null, Null)),
   Response("json", ParsedIntent("object", sEmpty, Some(sAB), <<>>, Null, Null)),
   Response("json", ParsedIntent("null", sEmpty, Null, <<>>, Null, Null))}

\* outcomes of getEmbedding: absent, or a vector
EmbeddingOutcomes == {Null, Some(vE1), Some(vE2), Some(<<>>)}
AppEmbeddingOutcomes == {Null, Some(vE1)}

\* responses to the synthesis call, given the notes put in the prompt; the
\* ids the model returns are none, the first note's, or 0, the id of no note
SynthValues(relevant) ==
  {SynthValue("object", Some("answer"), Some(ids)) :
     ids \in {<<>>, <<0>>}
               \cup {<<relevant[i].id>> : i \in DOMAIN relevant \cap {1}}}
  \cup {SynthValue("null", Null, Null), SynthValue("noFields", Null, Null)}

SynthResponses(relevant) ==
  {Response(kind, SynthValue("none", Null, Null)) :
     kind \in {"error", "empty", "malformed"}}
  \cup {Response("json", v) : v \in SynthValues(relevant)}

\* responses to the annotation call when the whole application runs
AnnotationResponses ==
  {Response("error", NoAnalysis),
   Response("json", Analysis("object", sab, <<sab>>, sAb, Null)),
   Response("json", Analysis("null", sEmpty, <<>>, sEmpty, Null)),
   Response("json", Analysis("noTags", sab, <<>>, sAb, Null))}

\* every kind of response to the annotation call: failures, values that
\* conform to the schema (among them one with no tag and an empty
\* category) and values that do not
AllAnnotationResponses ==
  AnnotationResponses
  \cup {Response(kind, NoAnalysis) : kind \in {"empty", "malformed"}}
  \cup {Response("json", Analysis("object", sab, <<>>, sEmpty, Null)),
        Response("json", Analysis("noSummary", sEmpty, <<sab>>, sAb, Null))}

\* texts of the input area: empty, blank, short, and longer than the
\* degraded summary keeps
LongTextLen == 52
sLong == [i \in 1..LongTextLen |-> "x"]
sBlank == <<" ">>
\* the texts of the input field of the chat panel
ChatInputs == {sEmpty, sBlank, sab}
Texts == {sab}
AllTexts == {sEmpty, sBlank, sab, sLong}

\* ------------------------------------------------------------------------
\* State
\* ------------------------------------------------------------------------
VARIABLES
  mounted,            \* the mount effect of App has run
  memories,           \* App: the note collection, newest first
  isProcessing,       \* App: the flag handed to InputArea
  language,           \* App: the display language
  now,                \* the value Date.now() gives
  subs,               \* the submissions started so far, in order of start
  qpc,                \* queryBrain: "idle", the call awaited, or "done"
  userQuery,          \* queryBrain: its arguments
  qMemories,
  qLanguage,
  parsed,             \* queryBrain: its locals
  filteredMemories,
  queryEmbedding,
  memoriesWithScore,
  relevantMemories,
  calls,              \* the external calls queryBrain has issued, in order
  result,             \* what queryBrain gave its caller
  showChat,           \* App: the chat panel is open
  highlightedIds,     \* App: the ids handed to handleHighlight last
  messages,           \* ChatInterface: the chat log
  input,              \* ChatInterface: the text of the input field
  isLoading,          \* ChatInterface: a query is awaited
  sends               \* the number of calls of handleSend so far

appVars == <<mounted, memories, isProcessing, language, now, subs>>
queryVars == <<qpc, userQuery, qMemories, qLanguage, parsed, filteredMemories,
               queryEmbedding, memoriesWithScore, relevantMemories, calls,
               result>>
chatVars == <<showChat, highlightedIds, messages, input, isLoading, sends>>
vars == <<mounted, memories, isProcessing, language, now, subs,
          qpc, userQuery, qMemories, qLanguage, parsed, filteredMemories,
          queryEmbedding, memoriesWithScore, relevantMemories, calls, result,
          showChat, highlightedIds, messages, input, isLoading, sends>>

QueryIdle ==
  /\ qpc = "idle"
  /\ userQuery = sEmpty
  /\ qMemories = <<>>
  /\ qLanguage = "zh"
  /\ parsed = NoParsed
  /\ filteredMemories = <<>>
  /\ queryEmbedding = Null
  /\ memoriesWithScore = <<>>
  /\ relevantMemories = <<>>
  /\ calls = <<>>
  /\ result = NoResult

\* App after construction: the useState initial values
Init ==
  /\ mounted = FALSE
  /\ memories = <<>>
  /\ isProcessing = FALSE
  /\ language = "zh"
  /\ now = StoredMaxTime
  /\ subs = <<>>
  /\ QueryIdle
  /\ showChat = FALSE
  /\ highlightedIds = <<>>
  /\ messages = <<>>
  /\ input = sEmpty
  /\ isLoading = FALSE
  /\ sends = 0

\* ------------------------------------------------------------------------
\* App
\* ------------------------------------------------------------------------
\* The mount effect: the stored collection replaces memories unless there
\* is none or JSON.parse throws.  The render that follows evaluates
\* filteredMemories with selectedCategory = 'All', whose result.sort orders
\* the memories array itself by createdAt, newest first.  The effect of
\* ChatInterface runs in the same commit and puts the welcome message in
\* the chat log.
Mount(saved) ==
  /\ ~mounted
  /\ mounted' = TRUE
  /\ memories' = IF saved.kind = "json" THEN SortByCreatedAt(saved.value)
                 ELSE memories
  /\ messages' = <<Welcome(language)>>
  /\ UNCHANGED <<isProcessing, language, now, subs>>
  /\ UNCHANGED queryVars
  /\ UNCHANGED <<showChat, highlightedIds, input, isLoading, sends>>

\* the clock advances
Tick ==
  /\ now < StoredMaxTime + MaxTicks
  /\ now' = now + 1
  /\ UNCHANGED <<mounted, memories, isProcessing, language, subs>>
  /\ UNCHANGED queryVars
  /\ UNCHANGED chatVars

\* toggleLanguage, and the effect of ChatInterface that the change of
\* language triggers: the chat log becomes the welcome message alone
MutToggleLanguageKeepsLog ==
  /\ mounted
  /\ language' = IF language = "en" THEN "zh" ELSE "en"
  /\ UNCHANGED <<mounted, memories, isProcessing, now, subs>>
  /\ UNCHANGED queryVars
  /\ UNCHANGED chatVars

toggleLanguage ==
  /\ mounted
  /\ language' = IF language = "en" THEN "zh" ELSE "en"
  /\ messages' = <<Welcome(language')>>
  /\ UNCHANGED <<mounted, memories, isProcessing, now, subs>>
  /\ UNCHANGED queryVars
  /\ UNCHANGED <<showChat, highlightedIds, input, isLoading, sends>>

\* InputArea.handleSubmit, from the send button (disabled while
\* isProcessing or without text and image) or from the Enter key: it
\* returns at once without text (after trim) and image; else it runs
\* App.handleSubmit up to its first await: fileToBase64 for an image, else
\* the annotation call of analyzeContent.
handleSubmit(viaButton, text, image) ==
  /\ mounted
  /\ Len(subs) < MaxSubmits
  /\ viaButton => ~(isProcessing \/ (Len(text) = 0 /\ ~image))
  /\ IF Len(trim(text)) = 0 /\ ~image
     THEN UNCHANGED <<isProcessing, subs>>
     ELSE /\ isProcessing' = TRUE
          /\ subs' = Append(subs,
                            IF image
                            THEN Submission("fileToBase64", text, <<>>,
                                            NoAnalysis, NoAnalysis, 0)
                            ELSE Submission("generateContent", text,
                                            <<"generateContent">>,
                                            NoAnalysis, NoAnalysis, 0))
  /\ UNCHANGED <<mounted, memories, language, now>>
  /\ UNCHANGED queryVars
  /\ UNCHANGED chatVars

\* the tail of handleSubmit once analyzeContent has returned analysis:
\* the note is put in front of the collection, and finally isProcessing
\* is cleared
AddMemory(i, annotation, analysis) ==
  /\ memories' = <<NewMemory(generateId(i), analysis, now)>> \o memories
  /\ isProcessing' = FALSE
  /\ subs' = [subs EXCEPT ![i] = Submission("done", subs[i].text,
                                            subs[i].issued, annotation,
                                            analysis, generateId(i))]

\* fileToBase64 settles: on rejection the catch block alerts and finally
\* clears isProcessing, without a note
fileToBase64Returns(i, ok) ==
  /\ i \in DOMAIN subs
  /\ subs[i].pc = "fileToBase64"
  /\ IF ok
     THEN /\ subs' = [subs EXCEPT ![i].pc = "generateContent",
                                  ![i].issued = <<"generateContent">>]
          /\ UNCHANGED isProcessing
     ELSE /\ subs' = [subs EXCEPT ![i].pc = "failed"]
          /\ isProcessing' = FALSE
  /\ UNCHANGED <<mounted, memories, language, now>>
  /\ UNCHANGED queryVars
  /\ UNCHANGED chatVars

\* the annotation call of analyzeContent settles: on success getEmbedding
\* is called; on any failure the degraded result is returned and
\* handleSubmit adds the note
analyzeContentAnnotated(i, resp) ==
  /\ i \in DOMAIN subs
  /\ subs[i].pc = "generateContent"
  /\ IF AnnotationFails(resp)
     THEN AddMemory(i, resp.value, DegradedAnalysis(subs[i].text))
     ELSE /\ subs' = [subs EXCEPT ![i].pc = "getEmbedding",
                                  ![i].issued = Append(@, "getEmbedding"),
                                  ![i].result = resp.value]
          /\ UNCHANGED <<memories, isProcessing>>
  /\ UNCHANGED <<mounted, language, now>>
  /\ UNCHANGED queryVars
  /\ UNCHANGED chatVars

\* getEmbedding settles inside analyzeContent, which returns the result
\* with the embedding; handleSubmit adds the note
analyzeContentEmbedded(i, embedding) ==
  /\ i \in DOMAIN subs
  /\ subs[i].pc = "getEmbedding"
  /\ AddMemory(i, subs[i].result, WithEmbedding(subs[i].result, embedding))
  /\ UNCHANGED <<mounted, language, now>>
  /\ UNCHANGED queryVars
  /\ UNCHANGED chatVars

\* ------------------------------------------------------------------------
\* queryBrain
\* ------------------------------------------------------------------------
\* handleSend calls queryBrain(userMsg.text, memories, language); step 0
\* runs and parseSearchIntent issues its call
queryBrain(query) ==
  /\ mounted
  /\ qpc = "idle"
  /\ qpc' = "parseSearchIntent"
  /\ userQuery' = query
  /\ qMemories' = memories
  /\ qLanguage' = language
  /\ calls' = <<"parseSearchIntent">>
  /\ UNCHANGED <<parsed, filteredMemories, queryEmbedding, memoriesWithScore,
                 relevantMemories, result>>
  /\ UNCHANGED appVars

\* step 4 and the start of step 5, given the ranked notes
Step4(p, relevant) ==
  /\ relevantMemories' = relevant
  /\ IF Len(relevant) = 0
     THEN /\ qpc' = "done"
          /\ result' = NoMatches(qLanguage, p)
          /\ UNCHANGED calls
     ELSE /\ qpc' = "generateContent"
          /\ calls' = Append(calls, "generateContent")
          /\ UNCHANGED result

\* a TypeError leaves queryBrain: its promise is rejected
Raise ==
  /\ qpc' = "done"
  /\ result' = Raised
  /\ UNCHANGED <<filteredMemories, queryEmbedding, memoriesWithScore,
                 relevantMemories, calls>>

\* parseSearchIntent settles; steps 2 and 3 run up to the next await
parseSearchIntentReturns(resp) ==
  /\ qpc = "parseSearchIntent"
  /\ LET p == parseSearchIntent(userQuery, resp)
         filtered == HardFilter(qMemories, p)
     IN /\ parsed' = p
        /\ IF FilterThrows(qMemories, p) \/ KeywordsThrows(p)
           THEN Raise
           ELSE IF HasKeywords(p)
           THEN /\ filteredMemories' = filtered
                /\ qpc' = "getEmbedding"
                /\ calls' = Append(calls, "getEmbedding")
                /\ UNCHANGED <<queryEmbedding, memoriesWithScore,
                               relevantMemories, result>>
           ELSE \* filteredMemories.sort orders the array in place
                /\ filteredMemories' = SortByCreatedAt(filtered)
                /\ Step4(p, RankRecent(filtered))
                /\ UNCHANGED <<queryEmbedding, memoriesWithScore>>
  /\ UNCHANGED <<userQuery, qMemories, qLanguage>>
  /\ UNCHANGED appVars
  /\ UNCHANGED chatVars

\* getEmbedding(parsed.keywords) settles; the rest of step 3 and step 4
MutGetEmbeddingRetries(embedding) ==
  /\ qpc = "getEmbedding"
  /\ queryEmbedding' = embedding
  /\ IF IsNull(embedding) /\ Len(calls) = 2
     THEN /\ calls' = Append(calls, "getEmbedding")
          /\ UNCHANGED <<qpc, memoriesWithScore, relevantMemories, result>>
     ELSE IF ~IsNull(embedding) /\ Len(filteredMemories) > 0
     THEN LET scored == ScoreMemories(Val(embedding), filteredMemories)
          IN /\ memoriesWithScore' = SortByScore(scored)
             /\ Step4(parsed, RankByScore(scored))
     ELSE /\ UNCHANGED memoriesWithScore
          /\ Step4(parsed, RankFallback(filteredMemories))
  /\ UNCHANGED <<userQuery, qMemories, qLanguage, parsed, filteredMemories>>
  /\ UNCHANGED appVars
  /\ UNCHANGED chatVars

getEmbeddingReturns(embedding) ==
  /\ qpc = "getEmbedding"
  /\ queryEmbedding' = embedding
  /\ IF ~IsNull(embedding) /\ Len(filteredMemories) > 0
     THEN LET scored == ScoreMemories(Val(embedding), filteredMemories)
          IN /\ memoriesWithScore' = SortByScore(scored)
             /\ Step4(parsed, RankByScore(scored))
     ELSE /\ UNCHANGED memoriesWithScore
          /\ Step4(parsed, RankFallback(filteredMemories))
  /\ UNCHANGED <<userQuery, qMemories, qLanguage, parsed, filteredMemories>>
  /\ UNCHANGED appVars
  /\ UNCHANGED chatVars

\* the synthesis call settles; step 6
generateContentReturns(resp) ==
  /\ qpc = "generateContent"
  /\ qpc' = "done"
  /\ result' = Synthesize(resp, qLanguage, parsed)
  /\ UNCHANGED <<userQuery, qMemories, qLanguage, parsed, filteredMemories,
                 queryEmbedding, memoriesWithScore, relevantMemories, calls>>
  /\ UNCHANGED appVars
  /\ UNCHANGED chatVars

\* the caller has taken the result (or the rejection); the locals are gone
queryBrainFinished ==
  /\ qpc = "done"
  /\ qpc' = "idle"
  /\ userQuery' = sEmpty
  /\ qMemories' = <<>>
  /\ qLanguage' = "zh"
  /\ parsed' = NoParsed
  /\ filteredMemories' = <<>>
  /\ queryEmbedding' = Null
  /\ memoriesWithScore' = <<>>
  /\ relevantMemories' = <<>>
  /\ calls' = <<>>
  /\ result' = NoResult
  /\ UNCHANGED appVars
  /\ UNCHANGED chatVars

\* ------------------------------------------------------------------------
\* The chat panel
\* ------------------------------------------------------------------------
\* the "Ask AI" button of the header: setShowChat(true)
openChat ==
  /\ mounted
  /\ ~showChat
  /\ showChat' = TRUE
  /\ UNCHANGED <<highlightedIds, messages, input, isLoading, sends>>
  /\ UNCHANGED appVars
  /\ UNCHANGED queryVars

\* onClose, from the backdrop, the close button or "View References":
\* setShowChat(false); ChatInterface stays mounted and renders nothing
closeChat ==
  /\ showChat
  /\ showChat' = FALSE
  /\ UNCHANGED <<highlightedIds, messages, input, isLoading, sends>>
  /\ UNCHANGED appVars
  /\ UNCHANGED queryVars

\* onChange of the input field
setInput(value) ==
  /\ showChat
  /\ input' = value
  /\ UNCHANGED <<showChat, highlightedIds, messages, isLoading, sends>>
  /\ UNCHANGED appVars
  /\ UNCHANGED queryVars

\* handleSend, from the send button or the Enter key, up to its await: it
\* returns at once on a blank input or while a query is awaited; else it
\* appends the user message, clears the input, sets isLoading and calls
\* queryBrain(userMsg.text, memories, language)
MutHandleSendBlank ==
  /\ showChat
  /\ sends < MaxSends
  /\ sends' = sends + 1
  /\ IF isLoading
     THEN /\ UNCHANGED <<messages, input, isLoading>>
          /\ UNCHANGED appVars
          /\ UNCHANGED queryVars
     ELSE /\ messages' = Append(messages, UserMessage(input))
          /\ input' = sEmpty
          /\ isLoading' = TRUE
          /\ queryBrain(input)
  /\ UNCHANGED <<showChat, highlightedIds>>

handleSend ==
  /\ showChat
  /\ sends < MaxSends
  /\ sends' = sends + 1
  /\ IF Len(trim(input)) = 0 \/ isLoading
     THEN /\ UNCHANGED <<messages, input, isLoading>>
          /\ UNCHANGED appVars
          /\ UNCHANGED queryVars
     ELSE /\ messages' = Append(messages, UserMessage(input))
          /\ input' = sEmpty
          /\ isLoading' = TRUE
          /\ queryBrain(input)
  /\ UNCHANGED <<showChat, highlightedIds>>

\* the rest of handleSend once queryBrain has settled: the reply, or the
\* generic error text in the language of the render that sent the message,
\* is appended; a non-empty relatedIds goes to handleHighlight; finally
\* isLoading is cleared
handleSendReturns ==
  /\ qpc = "done"
  /\ messages' = Append(messages, ReplyMessage(result, qLanguage))
  /\ highlightedIds' = IF /\ result.kind = "return"
                          /\ ~IsNull(result.relatedIds)
                          /\ Len(Val(result.relatedIds)) > 0
                       THEN Val(result.relatedIds)
                       ELSE highlightedIds
  /\ isLoading' = FALSE
  /\ qpc' = "idle"
  /\ userQuery' = sEmpty
  /\ qMemories' = <<>>
  /\ qLanguage' = "zh"
  /\ parsed' = NoParsed
  /\ filteredMemories' = <<>>
  /\ queryEmbedding' = Null
  /\ memoriesWithScore' = <<>>
  /\ relevantMemories' = <<>>
  /\ calls' = <<>>
  /\ result' = NoResult
  /\ UNCHANGED <<showChat, input, sends>>
  /\ UNCHANGED appVars

\* ------------------------------------------------------------------------
\* Specifications
\* ------------------------------------------------------------------------
Next ==
  \/ \E saved \in SavedItems : Mount(saved)
  \/ Tick
  \/ toggleLanguage
  \/ \E viaButton \in BOOLEAN, text \in Texts, image \in BOOLEAN :
       handleSubmit(viaButton, text, image)
  \/ \E i \in 1..MaxSubmits, ok \in BOOLEAN : fileToBase64Returns(i, ok)
  \/ \E i \in 1..MaxSubmits, resp \in AnnotationResponses :
       analyzeContentAnnotated(i, resp)
  \/ \E i \in 1..MaxSubmits, e \in AppEmbeddingOutcomes :
       analyzeContentEmbedded(i, e)
  \/ \E query \in UserQueries : queryBrain(query) /\ UNCHANGED chatVars
  \/ \E resp \in AppIntentResponses : parseSearchIntentReturns(resp)
  \/ \E e \in AppEmbeddingOutcomes : getEmbeddingReturns(e)
  \/ \E resp \in SynthResponses(relevantMemories) : generateContentReturns(resp)
  \/ queryBrainFinished

Spec == Init /\ [][Next]_vars

\* Note capture alone: every text of the input area and every response of
\* the annotation call
NextCapture ==
  \/ \E saved \in SavedItems : Mount(saved)
  \/ Tick
  \/ \E viaButton \in BOOLEAN, text \in AllTexts, image \in BOOLEAN :
       handleSubmit(viaButton, text, image)
  \/ \E i \in 1..MaxSubmits, ok \in BOOLEAN : fileToBase64Returns(i, ok)
  \/ \E i \in 1..MaxSubmits, resp \in AllAnnotationResponses :
       analyzeContentAnnotated(i, resp)
  \/ \E i \in 1..MaxSubmits, e \in AppEmbeddingOutcomes :
       analyzeContentEmbedded(i, e)

SpecCapture == Init /\ [][NextCapture]_vars

\* The chat panel alone: the collection is the stored one, and the three
\* calls of queryBrain take the responses used when the whole application
\* runs
NextChat ==
  \/ \E saved \in SavedItems : Mount(saved)
  \/ toggleLanguage
  \/ openChat
  \/ closeChat
  \/ \E value \in ChatInputs : setInput(value)
  \/ handleSend
  \/ \E resp \in AppIntentResponses : parseSearchIntentReturns(resp)
  \/ \E e \in AppEmbeddingOutcomes : getEmbeddingReturns(e)
  \/ \E resp \in SynthResponses(relevantMemories) : generateContentReturns(resp)
  \/ handleSendReturns

SpecChat == Init /\ [][NextChat]_vars

\* every call of queryBrain settles, and the continuation of handleSend
\* runs once queryBrain has settled
SpecChatFair ==
  /\ SpecChat
  /\ WF_vars(\E resp \in AppIntentResponses : parseSearchIntentReturns(resp))
  /\ WF_vars(\E e \in AppEmbeddingOutcomes : getEmbeddingReturns(e))
  /\ WF_vars(\E resp \in SynthResponses(relevantMemories) :
               generateContentReturns(resp))
  /\ WF_vars(handleSendReturns)

\* queryBrain as a function of its arguments: any stored collection, in
\* any order (queryBrain is exported and does not require an order), any
\* language, and every response of the three calls
InitRecall ==
  /\ mounted = TRUE
  /\ memories \in StoredCollections
  /\ isProcessing = FALSE
  /\ language \in Languages
  /\ now = StoredMaxTime
  /\ subs = <<>>
  /\ QueryIdle
  /\ showChat = FALSE
  /\ highlightedIds = <<>>
  /\ messages = <<Welcome(language)>>
  /\ input = sEmpty
  /\ isLoading = FALSE
  /\ sends = 0

NextRecall ==
  \/ \E query \in UserQueries : queryBrain(query) /\ UNCHANGED chatVars
  \/ \E resp \in IntentResponses : parseSearchIntentReturns(resp)
  \/ \E e \in EmbeddingOutcomes : getEmbeddingReturns(e)
  \/ \E resp \in SynthResponses(relevantMemories) : generateContentReturns(resp)
  \/ queryBrainFinished

SpecRecall == InitRecall /\ [][NextRecall]_vars

\* ------------------------------------------------------------------------
\* Positions of queryBrain the properties speak about
\* ------------------------------------------------------------------------
\* the hard filter has run without raising
Filtered ==
  /\ qpc \in {"getEmbedding", "generateContent", "done"}
  /\ result.kind # "raise"

\* step 3 has produced the ranked result
Ranked ==
  /\ qpc \in {"generateContent", "done"}
  /\ result.kind # "raise"

InSeq(arr, x) == \E k \in DOMAIN arr : arr[k] = x
Issued(call) == InSeq(calls, call)
DistinctIds(arr) ==
  \A j \in DOMAIN arr : \A k \in DOMAIN arr : j # k => arr[j].id # arr[k].id

\* ------------------------------------------------------------------------
\* C1
\* ------------------------------------------------------------------------
\* C1: when the annotation of a submission succeeded and the embedding
\* call inside analyzeContent gave a vector, the note added for that
\* submission carries that vector, and a keyword query that scores the note
\* gives it its cosine similarity, not the unscored value -1.
C1_NoteCarriesEmbedding ==
  \A i \in DOMAIN subs :
    (subs[i].pc = "done" /\ ~IsNull(subs[i].analysis.embedding)) =>
      /\ \E k \in DOMAIN memories :
           /\ memories[k].id = subs[i].noteId
           /\ memories[k].embedding = subs[i].analysis.embedding
      /\ \A k \in DOMAIN memoriesWithScore :
           memoriesWithScore[k].memory.id = subs[i].noteId =>
             memoriesWithScore[k].score =
               cosineSimilarity(Val(queryEmbedding),
                                Val(subs[i].analysis.embedding))

\* ------------------------------------------------------------------------
\* C2
\* ------------------------------------------------------------------------
\* C2: queryBrain is total: whatever the note collection and the responses
\* of the three calls, it returns an object with an answer and a relatedIds
\* list and never rejects.
C2_QueryTotal ==
  qpc = "done" =>
    /\ result.kind = "return"
    /\ ~IsNull(result.answer)
    /\ ~IsNull(result.relatedIds)

\* ------------------------------------------------------------------------
\* C3
\* ------------------------------------------------------------------------
\* the tag condition as stated: no tag requested, or some requested tag
\* equals some tag of the note, letter case ignored on both sides
TagConditionStated(m, p) ==
  Len(p.tags) = 0
  \/ \E i \in DOMAIN p.tags : \E j \in DOMAIN m.tags :
       toLowerCase(p.tags[i]) = toLowerCase(m.tags[j])

\* C3: a note that passes the category and date tests is a candidate if
\* and only if no tag is requested or a requested tag equals one of its
\* tags ignoring letter case on both sides.
C3_TagConditionBothSides ==
  (Filtered /\ parsed.shape = "object") =>
    \A k \in DOMAIN qMemories :
      (CategoryFilter(qMemories[k], parsed) /\ DateFilter(qMemories[k], parsed))
        => (InSeq(filteredMemories, qMemories[k])
              <=> TagConditionStated(qMemories[k], parsed))

\* ------------------------------------------------------------------------
\* C4
\* ------------------------------------------------------------------------
\* the date conditions as stated: each bound is null or holds, inclusive
DateConditionStated(m, p) ==
  /\ (IsNull(p.startDate) \/ m.createdAt >= Val(p.startDate))
  /\ (IsNull(p.endDate) \/ m.createdAt <= Val(p.endDate))

\* C4: a note that passes the category and tag tests is a candidate if and
\* only if startDate is null or createdAt >= startDate, and endDate is
\* null or createdAt <= endDate; a bound of 0 is a bound.
C4_DateBoundsApplied ==
  (Filtered /\ parsed.shape = "object") =>
    \A k \in DOMAIN qMemories :
      (CategoryFilter(qMemories[k], parsed) /\ TagFilter(qMemories[k], parsed))
        => (InSeq(filteredMemories, qMemories[k])
              <=> DateConditionStated(qMemories[k], parsed))

\* ------------------------------------------------------------------------
\* C5
\* ------------------------------------------------------------------------
\* the four conditions as stated
CategoryConditionStated(m, p) ==
  IsNull(p.category) \/ toLowerCase(m.category) = toLowerCase(Val(p.category))

CandidateStated(m, p) ==
  /\ CategoryConditionStated(m, p)
  /\ TagConditionStated(m, p)
  /\ DateConditionStated(m, p)

\* C5: the candidates are exactly the notes that satisfy the four stated
\* conditions, each decided on its own, in the order of the collection
\* (ordered by createdAt afterwards on the branch without keywords, which
\* sorts the array), and filtering the candidates again changes nothing.
C5_FilterIsStatedPredicate ==
  (Filtered /\ parsed.shape = "object") =>
    LET Stated(m) == CandidateStated(m, parsed)
        expected == SelectSeq(qMemories, Stated)
    IN /\ filteredMemories = IF HasKeywords(parsed) THEN expected
                             ELSE SortByCreatedAt(expected)
       /\ HardFilter(filteredMemories, parsed) = filteredMemories

\* ------------------------------------------------------------------------
\* C6
\* ------------------------------------------------------------------------
\* the branch of step 3 that scores the candidates has run
ScoreRanked ==
  /\ Ranked
  /\ HasKeywords(parsed)
  /\ ~IsNull(queryEmbedding)
  /\ Len(filteredMemories) > 0

\* the similarity score of a candidate against the keyword embedding
ScoreOf(m) ==
  IF IsNull(m.embedding) THEN ScoreMinusOne
  ELSE cosineSimilarity(Val(queryEmbedding), Val(m.embedding))

\* at most 10 notes, all of them distinct candidates, in non-increasing
\* order of score, and none left out that scores higher than one included
TopByScore ==
  /\ Len(relevantMemories) = Min(TopK, Len(filteredMemories))
  /\ \A k \in DOMAIN relevantMemories :
       InSeq(filteredMemories, relevantMemories[k])
  /\ DistinctIds(relevantMemories)
  /\ \A j \in DOMAIN relevantMemories : \A k \in DOMAIN relevantMemories :
       j < k => ~ScoreLess(ScoreOf(relevantMemories[j]),
                           ScoreOf(relevantMemories[k]))
  /\ \A i \in DOMAIN filteredMemories :
       ~InSeq(relevantMemories, filteredMemories[i]) =>
         \A k \in DOMAIN relevantMemories :
           ~ScoreLess(ScoreOf(relevantMemories[k]),
                      ScoreOf(filteredMemories[i]))

\* C6 as stated: with keywords, a keyword embedding and candidates, the
\* ranked result is the top 10 by score and every candidate without a
\* stored embedding comes after every candidate with one.
C6_UnscoredAfterEveryScored ==
  ScoreRanked =>
    /\ TopByScore
    /\ \A j \in DOMAIN relevantMemories : \A k \in DOMAIN relevantMemories :
         (IsNull(relevantMemories[j].embedding)
          /\ ~IsNull(relevantMemories[k].embedding)) => k < j

\* C6 as amended: with keywords, a keyword embedding and candidates, the
\* ranked result is the top 10 by score and every candidate without a
\* stored embedding comes after every candidate whose score is greater
\* than -1; a candidate whose cosine similarity is exactly -1 ties with it.
C6_UnscoredAfterHigherScored ==
  ScoreRanked =>
    /\ TopByScore
    /\ \A j \in DOMAIN relevantMemories : \A k \in DOMAIN relevantMemories :
         (IsNull(relevantMemories[j].embedding)
          /\ ScoreLess(ScoreMinusOne, ScoreOf(relevantMemories[k]))) => k < j

\* more than 10 candidates were scored, and the result holds a candidate
\* without an embedding as well as ones with different scores
C6_Witness ==
  /\ ScoreRanked
  /\ Len(filteredMemories) > TopK
  /\ \E j \in DOMAIN relevantMemories : IsNull(relevantMemories[j].embedding)
  /\ \E j \in DOMAIN relevantMemories : \E k \in DOMAIN relevantMemories :
       ScoreLess(ScoreOf(relevantMemories[k]), ScoreOf(relevantMemories[j]))

\* ------------------------------------------------------------------------
\* C7
\* ------------------------------------------------------------------------
\* the branch of step 3 without keywords has run
RecentRanked == Ranked /\ ~HasKeywords(parsed)

\* C7: when parsed.keywords has at most one character, queryBrain issues
\* no embedding call and the ranked result is the at most 10 candidates
\* with the largest createdAt, newest first.
C7_RecentWithoutKeywords ==
  RecentRanked =>
    LET candidates == HardFilter(qMemories, parsed)
    IN /\ ~Issued("getEmbedding")
       /\ Len(relevantMemories) = Min(TopK, Len(candidates))
       /\ \A k \in DOMAIN relevantMemories :
            InSeq(candidates, relevantMemories[k])
       /\ DistinctIds(relevantMemories)
       /\ \A j \in DOMAIN relevantMemories : \A k \in DOMAIN relevantMemories :
            j < k => relevantMemories[j].createdAt >= relevantMemories[k].createdAt
       /\ \A i \in DOMAIN candidates :
            ~InSeq(relevantMemories, candidates[i]) =>
              \A k \in DOMAIN relevantMemories :
                relevantMemories[k].createdAt >= candidates[i].createdAt

\* more than 10 candidates, not given newest first, ranked by recency
C7_Witness ==
  /\ RecentRanked
  /\ Len(HardFilter(qMemories, parsed)) > TopK
  /\ HardFilter(qMemories, parsed) # SortByCreatedAt(HardFilter(qMemories, parsed))
  /\ relevantMemories[1].createdAt > relevantMemories[TopK].createdAt

\* ------------------------------------------------------------------------
\* C8
\* ------------------------------------------------------------------------
\* the keyword embedding call was made and gave nothing
FallbackRanked ==
  /\ Ranked
  /\ HasKeywords(parsed)
  /\ IsNull(queryEmbedding)

\* C8: when parsed.keywords has more than one character and the keyword
\* embedding is absent, queryBrain does not fail: the ranked result is the
\* first 10 candidates (all of them if fewer) in the order the hard filter
\* left them, and step 4 follows, which issues the synthesis call as soon
\* as that result is not empty.
C8_FallbackFirstTen ==
  FallbackRanked =>
    LET candidates == HardFilter(qMemories, parsed)
    IN /\ Issued("getEmbedding")
       /\ relevantMemories = SubSeq(candidates, 1, Min(TopK, Len(candidates)))
       /\ Len(relevantMemories) > 0 => Issued("generateContent")

\* more than 10 candidates, not given newest first, kept in filter order
\* with the synthesis call in flight
C8_Witness ==
  /\ FallbackRanked
  /\ qpc = "generateContent"
  /\ Len(filteredMemories) > TopK
  /\ relevantMemories # slice0(SortByCreatedAt(filteredMemories), TopK)

\* ------------------------------------------------------------------------
\* C9
\* ------------------------------------------------------------------------
\* C9: whenever the ranked result is empty, as it is whenever no note
\* passes the hard filter, queryBrain has returned the no-matches answer in
\* the language it was called with, with relatedIds = [] and usedFilters =
\* parsed, and has not issued the synthesis call.
C9_EmptyShortCircuits ==
  /\ (Ranked /\ Len(HardFilter(qMemories, parsed)) = 0)
       => Len(relevantMemories) = 0
  /\ (Ranked /\ Len(relevantMemories) = 0) =>
       /\ qpc = "done"
       /\ result.kind = "return"
       /\ result.answer = Some(msgNoMatches(qLanguage))
       /\ result.relatedIds = Some(<<>>)
       /\ result.usedFilters = Some(parsed)
       /\ ~Issued("generateContent")

\* a query in English over a non-empty collection that the category filter
\* emptied
C9_Witness ==
  /\ Ranked
  /\ Len(qMemories) > 0
  /\ Len(relevantMemories) = 0
  /\ qLanguage = "en"
  /\ parsed.shape = "object"
  /\ ~IsNull(parsed.category)

\* ------------------------------------------------------------------------
\* C10
\* ------------------------------------------------------------------------
\* C10: once the synthesis call has settled, queryBrain has returned either
\* the model's answer and relatedIds with usedFilters = parsed, or, on any
\* failure including a response outside the schema, the apology in the
\* language it was called with, relatedIds = [] and no usedFilters.
C10_AnswerOrApology ==
  (qpc = "done" /\ Issued("generateContent")) =>
    \/ /\ result.kind = "return"
       /\ ~IsNull(result.answer)
       /\ ~IsNull(result.relatedIds)
       /\ result.usedFilters = Some(parsed)
    \/ result = Apology(qLanguage)

\* ------------------------------------------------------------------------
\* Positions of a submission the properties speak about
\* ------------------------------------------------------------------------
\* App.handleSubmit has started for submission i and has neither added
\* its note nor reported its error
InFlight(i) == subs[i].pc \in {"fileToBase64", "generateContent", "getEmbedding"}

\* ------------------------------------------------------------------------
\* C11
\* ------------------------------------------------------------------------
\* C11: analyzeContent always returns; whenever the annotation call fails
\* (transport error, no text, malformed JSON) or its response does not
\* conform to the {summary, tags, category} schema, it returns exactly the
\* degraded result (the first 50 characters of the text followed by "...",
\* tags ["uncategorized"], category "General", no embedding) and has made
\* no embedding call.
C11_FailureGivesDegraded ==
  \A i \in DOMAIN subs :
    subs[i].pc = "done" =>
      /\ subs[i].analysis.shape # "none"
      /\ subs[i].result.shape # "object" =>
           /\ subs[i].analysis =
                Analysis("object", SubSeq(subs[i].text, 1,
                                          Min(50, Len(subs[i].text)))
                                     \o <<".", ".", ".">>,
                         <<sUncategorized>>, sGeneral, Null)
           /\ ~InSeq(subs[i].issued, "getEmbedding")

\* ------------------------------------------------------------------------
\* C13
\* ------------------------------------------------------------------------
\* C13: every note of the collection has at least one tag and a non-empty
\* category.
C13_TagsAndCategoryNonEmpty ==
  \A k \in DOMAIN memories :
    /\ Len(memories[k].tags) > 0
    /\ Len(memories[k].category) > 0

\* ------------------------------------------------------------------------
\* C16
\* ------------------------------------------------------------------------
\* C16: at most one submission is in flight at any time.
C16_OneSubmissionInFlight ==
  \A i \in DOMAIN subs : \A j \in DOMAIN subs :
    (InFlight(i) /\ InFlight(j)) => i = j

\* ------------------------------------------------------------------------
\* C19
\* ------------------------------------------------------------------------
\* C19: isProcessing is true exactly while some submission is in flight.
C19_ProcessingIffInFlight ==
  isProcessing <=> \E i \in DOMAIN subs : InFlight(i)

\* ------------------------------------------------------------------------
\* C12
\* ------------------------------------------------------------------------
\* C12: parseSearchIntent always returns, and what it returns is either a
\* value that conforms to the schema or, on any failure including a
\* response outside the schema, exactly the fallback {keywords: the query,
\* category: null, tags: [], startDate: null, endDate: null}; so keywords
\* is a string and tags an array in every value returned.
C12_IntentConformsOrFallback ==
  qpc \notin {"idle", "parseSearchIntent"} =>
    /\ parsed.shape = "object"
    /\ \/ parsed \in IntentValues
       \/ parsed = ParsedIntent("object", userQuery, Null, <<>>, Null, Null)

\* ------------------------------------------------------------------------
\* C15
\* ------------------------------------------------------------------------
CallOrders ==
  {<<"parseSearchIntent">>,
   <<"parseSearchIntent", "getEmbedding">>,
   <<"parseSearchIntent", "generateContent">>,
   <<"parseSearchIntent", "getEmbedding", "generateContent">>}

\* C15: within one query the calls issued so far are intent parsing, then
\* keyword embedding if any, then synthesis if any, each at most once; the
\* call awaited is the one issued last, so a call is issued only after the
\* one before it has settled, and a settled call is never issued again.
C15_CallsInOrderOnce ==
  /\ qpc = "idle" => calls = <<>>
  /\ qpc # "idle" => calls \in CallOrders
  /\ qpc \in {"parseSearchIntent", "getEmbedding", "generateContent"}
       => calls[Len(calls)] = qpc

\* a query all of whose three calls failed: the fallback intent, no
\* embedding, the apology, and three calls in all
C15_Witness ==
  /\ qpc = "done"
  /\ calls = <<"parseSearchIntent", "getEmbedding", "generateContent">>
  /\ parsed = FallbackIntent(userQuery)
  /\ IsNull(queryEmbedding)
  /\ result = Apology(qLanguage)

\* ------------------------------------------------------------------------
\* C17
\* ------------------------------------------------------------------------
\* C17: when the synthesis call has succeeded, every id of the relatedIds
\* queryBrain returns is the id of one of the notes of the ranked result.
C17_RelatedIdsAmongRanked ==
  (/\ qpc = "done"
   /\ Issued("generateContent")
   /\ result.kind = "return"
   /\ result # Apology(qLanguage)
   /\ ~IsNull(result.relatedIds)) =>
    \A k \in DOMAIN Val(result.relatedIds) :
      \E j \in DOMAIN relevantMemories :
        relevantMemories[j].id = Val(result.relatedIds)[k]

\* ------------------------------------------------------------------------
\* The chat log
\* ------------------------------------------------------------------------
\* the log after is the log before with messages added at its end
AppendOnly(before, after) ==
  /\ Len(before) <= Len(after)
  /\ SubSeq(after, 1, Len(before)) = before

\* the chat panel goes from closed to open
Opens == ~showChat /\ showChat'

\* ------------------------------------------------------------------------
\* C14
\* ------------------------------------------------------------------------
\* C14: the chat log only grows at its end, except that it becomes the
\* single welcome message whenever the chat panel opens, a re-opening
\* after a close included, and whenever the display language changes.
C14_ResetOnOpenAndOnLanguage ==
  [][/\ (Opens \/ language' # language)
          => messages' = <<Welcome(language')>>
     /\ ~(Opens \/ language' # language \/ mounted' # mounted)
          => AppendOnly(messages, messages')]_vars

\* C14 as the code has it: the chat log becomes the single welcome message
\* when the application mounts and whenever the display language changes;
\* at every other step, the opening and the closing of the chat panel
\* included, it only grows at its end, and opening or closing the panel
\* leaves it as it is.
C14_ResetOnLanguageOnly ==
  [][/\ (language' # language \/ mounted' # mounted)
          => messages' = <<Welcome(language')>>
     /\ ~(language' # language \/ mounted' # mounted)
          => AppendOnly(messages, messages')
     /\ showChat' # showChat => messages' = messages]_vars

\* the language was changed while a sent message awaited its reply: the
\* log holds the welcome message alone, in the new language
C14_Witness ==
  /\ isLoading
  /\ language = "en"
  /\ messages = <<Welcome("en")>>

\* ------------------------------------------------------------------------
\* C18
\* ------------------------------------------------------------------------
\* C18: in every state after mount the first message of the chat log is
\* the welcome message, and every later model message comes right after a
\* user message.
C18_ReplyFollowsItsQuestion ==
  mounted =>
    /\ Len(messages) >= 1
    /\ messages[1].role = "model"
    /\ messages[1].text = Some(msgWelcome(language))
    /\ \A k \in 2..Len(messages) :
         messages[k].role = "model" => messages[k - 1].role = "user"

\* ------------------------------------------------------------------------
\* C20
\* ------------------------------------------------------------------------
\* C20: a call of handleSend with a blank input or while isLoading changes
\* neither the log nor isLoading and starts no query; any other call
\* appends the user message, sets isLoading and starts one query, and a
\* query starts in no other way; while isLoading stays true no message is
\* appended; when isLoading goes back to false exactly one model message
\* has been appended, the answer of queryBrain or the generic error text if
\* it raised; and, the calls settling, isLoading always goes back to false.
C20_SendAnsweredOnce ==
  /\ [][sends' # sends =>
          IF Len(trim(input)) = 0 \/ isLoading
          THEN /\ messages' = messages
               /\ isLoading' = isLoading
               /\ calls' = calls
               /\ qpc' = qpc
          ELSE /\ messages' = Append(messages, UserMessage(input))
               /\ isLoading'
               /\ calls = <<>>
               /\ calls' = <<"parseSearchIntent">>
               /\ userQuery' = input]_vars
  /\ [][(calls = <<>> /\ calls' # <<>>) => sends' # sends]_vars
  /\ [][(isLoading /\ isLoading') =>
          \/ messages' = messages
          \/ language' # language]_vars
  /\ [][(isLoading /\ ~isLoading') =>
          /\ Len(messages') = Len(messages) + 1
          /\ AppendOnly(messages, messages')
          /\ messages'[Len(messages')].role = "model"
          /\ messages'[Len(messages')].text =
               IF result.kind = "raise"
               THEN Some(msgErrorGeneric(qLanguage))
               ELSE result.answer]_vars
  /\ isLoading ~> ~isLoading

\* two calls of handleSend, one of which was answered and the other of
\* which changed nothing
C20_Witness ==
  /\ sends = 2
  /\ ~isLoading
  /\ Len(messages) = 3
  /\ messages[2].role = "user"
  /\ messages[3].role = "model"

====
